---- MODULE Spec2Model ----
(***************************************************************************)
(* Model of the uber-rides-dashboard repository: the call-record API       *)
(* (main.py, schemas.py, models.py), the mock-data seeder (seed_data.py)   *)
(* and the two replay clients (Spain_posts.py, load_spain_combined.py).    *)
(*                                                                         *)
(* Six specifications share the variables below:                           *)
(*   Spec        the API server over the call_records table                *)
(*   SpecNorm    the aggregate-mode normaliser of Spain_posts.py           *)
(*   SpecReplay  the replay loop and its retry policy                      *)
(*   SpecSchema  CallRecordCreate applied to a request body                *)
(*   SpecPhone   clean_phone of both replay scripts                        *)
(*   SpecParse   parse_results and assign_attempts                         *)
(*                                                                         *)
(* Text is modelled as a sequence of one-character strings wherever the    *)
(* code looks inside it (phones, str() / int() of numbers); labels that    *)
(* the code only compares for equality are TLA+ strings.                   *)
(***************************************************************************)
EXTENDS Integers, Sequences, FiniteSets, TLC

VARIABLES
    store,      \* call_records: the rows, in id order (row i has id i)
    clock,      \* database / server time, in hours since the epoch
    response,   \* the last answer of POST /api/calls
    apc,        \* position of the analytics request in flight
    afilter,    \* its country query parameter
    asnap,      \* the rows its database session reads
    rep,        \* the analytics report being assembled / last returned
    entry,      \* SpecNorm: the analysis.json entry at hand
    payload,    \* SpecNorm: what build_payload made of it
    rscript,    \* SpecReplay: which replay script runs
    rdata,      \* SpecReplay: the loaded list, then the entries still to post
    rpc,        \* SpecReplay: position of the replay script
    rattempt,   \* SpecReplay: the loop variable of post_with_retry
    rlog,       \* SpecReplay: what the script did, in order
    rsuccess,   \* SpecReplay: main's success counter
    rfailed,    \* SpecReplay: main's failed counter
    rtotal,     \* SpecReplay: main's total
    jbody,      \* SpecSchema: the JSON body of a POST /api/calls
    jrecord,    \* SpecSchema: what CallRecordCreate made of it
    praw,       \* SpecPhone: the raw phone text
    pclean,     \* SpecPhone: which clean_phone ran, and its result
    results,    \* SpecParse: results_data, the loaded results.json
    calls,      \* SpecParse: the list parse_results / assign_attempts hold
    ppc         \* SpecParse: position in main of load_spain_combined.py

vars == <<store, clock, response, apc, afilter, asnap, rep, entry, payload,
          rscript, rdata, rpc, rattempt, rlog, rsuccess, rfailed, rtotal,
          jbody, jrecord, praw, pclean, results, calls, ppc>>

serverVars == <<store, clock, response, apc, afilter, asnap, rep>>
normVars   == <<entry, payload>>
replayVars == <<rscript, rdata, rpc, rattempt, rlog, rsuccess, rfailed, rtotal>>
schemaVars == <<jbody, jrecord>>
phoneVars  == <<praw, pclean>>
parseVars  == <<results, calls, ppc>>
pureVars   == <<schemaVars, phoneVars, parseVars>>

(***************************************************************************)
(* Generic helpers                                                         *)
(***************************************************************************)
RECURSIVE SumSeq(_)
SumSeq(s) == IF s = <<>> THEN 0 ELSE Head(s) + SumSeq(Tail(s))

Range(s) == {s[i] : i \in DOMAIN s}

\* Python's str(int): decimal digits, most significant first, '-' for negatives
Digits == <<"0", "1", "2", "3", "4", "5", "6", "7", "8", "9">>

RECURSIVE NatToStr(_)
NatToStr(n) ==
    IF n < 10 THEN <<Digits[n + 1]>>
    ELSE Append(NatToStr(n \div 10), Digits[(n % 10) + 1])

IntToStr(n) == IF n < 0 THEN <<"-">> \o NatToStr(-n) ELSE NatToStr(n)

(***************************************************************************)
(* Spain_posts.py: the aggregate-mode normaliser                           *)
(***************************************************************************)
STATUS_PRIORITY ==
    <<"success", "callback requested", "not interested", "avoid callback",
      "not the right person", "wrong flow", "hang up", "voicemail">>

\* SENTIMENT_MAP.get(status, "neutral")
SENTIMENT_MAP(status) ==
    CASE status = "success"              -> "satisfied"
      [] status = "callback requested"   -> "neutral"
      [] status = "not interested"       -> "upset"
      [] status = "avoid callback"       -> "upset"
      [] status = "not the right person" -> "neutral"
      [] status = "wrong flow"           -> "neutral"
      [] status = "hang up"              -> "neutral"
      [] status = "voicemail"            -> "neutral"
      [] OTHER                           -> "neutral"

\* A result_breakdown is a Python dict: a sequence of [label, count] items
\* in insertion order, with distinct labels.
\* dict.get(label, 0)
DictGet(rb, label) ==
    IF \E i \in DOMAIN rb : rb[i].label = label
    THEN rb[CHOOSE i \in DOMAIN rb : rb[i].label = label].count
    ELSE 0

RECURSIVE ScanPriority(_, _)
ScanPriority(rb, k) ==
    IF k > Len(STATUS_PRIORITY)
    THEN IF rb = <<>> THEN "unknown" ELSE rb[1].label
    ELSE IF DictGet(rb, STATUS_PRIORITY[k]) > 0
         THEN STATUS_PRIORITY[k]
         ELSE ScanPriority(rb, k + 1)

dominant_status_majority(rb) ==
    IF rb = <<>> THEN "unknown"
    ELSE rb[CHOOSE i \in DOMAIN rb :
                \A j \in DOMAIN rb : rb[j].count < rb[i].count
                                     \/ (rb[j].count = rb[i].count /\ i <= j)].label

dominant_status(rb) == ScanPriority(rb, 1)

\* clean_phone: drop the spaces, then drop a leading '+' while the text
\* starts with "++"
RECURSIVE StripSpaces(_)
StripSpaces(s) ==
    IF s = <<>> THEN <<>>
    ELSE IF Head(s) = " " THEN StripSpaces(Tail(s))
         ELSE <<Head(s)>> \o StripSpaces(Tail(s))

RECURSIVE DropDoublePlus(_)
DropDoublePlus(s) ==
    IF Len(s) >= 2 /\ s[1] = "+" /\ s[2] = "+"
    THEN DropDoublePlus(Tail(s))
    ELSE s

clean_phone_once(raw) ==
    LET cleaned == StripSpaces(raw)
    IN  IF Len(cleaned) >= 2 /\ cleaned[1] = "+" /\ cleaned[2] = "+"
        THEN Tail(cleaned) ELSE cleaned

clean_phone(raw) == DropDoublePlus(StripSpaces(raw))

StartsWith(s, p) == Len(s) >= Len(p) /\ SubSeq(s, 1, Len(p)) = p

get_country(phone) ==
    IF StartsWith(phone, <<"+", "3", "5", "1">>) THEN "PT" ELSE "ES"

\* build_summary: the labels with a positive count, in dict order, each with
\* its count; "no calls recorded" when there is none
RECURSIVE SummaryParts(_)
SummaryParts(rb) ==
    IF rb = <<>> THEN <<>>
    ELSE IF Head(rb).count > 0
         THEN <<[n |-> IntToStr(Head(rb).count), label |-> Head(rb).label]>>
              \o SummaryParts(Tail(rb))
         ELSE SummaryParts(Tail(rb))

build_summary(rb) ==
    IF SummaryParts(rb) = <<>>
    THEN [text |-> "no calls recorded", parts |-> <<>>]
    ELSE [text |-> "joined", parts |-> SummaryParts(rb)]

\* An analysis.json entry: `keys` are the keys it has; phone is text,
\* result_breakdown a dict, minutes10 is minutes_excluding_voicemail in
\* tenths of a minute.
EntryBreakdown(e) ==
    IF "result_breakdown" \in e.keys THEN e.result_breakdown ELSE <<>>

EntryMinutes10(e) ==
    IF "minutes_excluding_voicemail" \in e.keys THEN e.minutes10 ELSE 0

NoPayload ==
    [raised |-> "none", phone |-> <<>>, status |-> "", sentiment |-> "",
     call_human |-> "", summary |-> [text |-> "", parts |-> <<>>],
     attempt |-> <<>>, duration |-> <<>>, country |-> ""]

call_human_docstring(dom, e) ==
    IF \E i \in DOMAIN EntryBreakdown(e) :
           EntryBreakdown(e)[i].label # "voicemail" /\ EntryBreakdown(e)[i].count > 0
    THEN "TRUE" ELSE "FALSE"

call_human_of(dom, e) == IF dom = "callback requested" THEN "TRUE" ELSE "FALSE"

\* build_payload; entry["phone"] raises KeyError when the key is missing
build_payload(e) ==
    IF "phone" \notin e.keys
    THEN [NoPayload EXCEPT !.raised = "KeyError"]
    ELSE LET phone == clean_phone(e.phone)
             rb    == EntryBreakdown(e)
             dom   == dominant_status(rb)
             \* int(round(minutes * 60)): tenths of a minute are 6 s each
             duration == EntryMinutes10(e) * 6
         IN  [raised     |-> "none",
              phone      |-> phone,
              status     |-> dom,
              sentiment  |-> SENTIMENT_MAP(dom),
              call_human |-> call_human_of(dom, e),
              summary    |-> build_summary(rb),
              attempt    |-> IntToStr(SumSeq([i \in DOMAIN rb |-> rb[i].count])),
              duration   |-> IntToStr(duration),
              country    |-> get_country(phone)]

(***************************************************************************)
(* load_spain_combined.py: the per-call payload                            *)
(***************************************************************************)
\* clean_phone of load_spain_combined.py
RECURSIVE LscWhilePlus(_)
LscWhilePlus(cleaned) ==
    IF Len(cleaned) >= 2 /\ SubSeq(cleaned, 1, 2) = <<"+", "+">>
    THEN LscWhilePlus(SubSeq(cleaned, 2, Len(cleaned)))
    ELSE cleaned

lsc_clean_phone(raw) == LscWhilePlus(SelectSeq(raw, LAMBDA c : c # " "))

\* A call as parse_results / assign_attempts leave it: phone, partner,
\* duration, status, timestamp (text, "" when the export had none), attempt.
lsc_build_payload(call) ==
    [raised     |-> "none",
     phone      |-> call.phone,
     status     |-> call.status,
     sentiment  |-> SENTIMENT_MAP(call.status),
     call_human |-> IF call.status = "callback requested" THEN "TRUE" ELSE "FALSE",
     summary    |-> [text |-> "partner-status", parts |-> <<>>],
     attempt    |-> IntToStr(call.attempt),
     duration   |-> IntToStr(call.duration),
     country    |-> "ES"]

(***************************************************************************)
(* SpecNorm: build_payload applied to every bounded entry                  *)
(***************************************************************************)
MaxKeys  == 2    \* result_breakdown has at most this many labels
MaxCount == 9    \* the largest count of a label

Labels == Range(STATUS_PRIORITY) \cup {"failed"}
Counts == {0, 1, MaxCount}
Items  == [label : Labels, count : Counts]

Breakdowns ==
    UNION {{rb \in [1..n -> Items] :
                \A i, j \in 1..n : i # j => rb[i].label # rb[j].label}
           : n \in 0..MaxKeys}

Phones == {<<"+", "+", "3", "5", "1", " ", "9">>, <<"+", "3", "4", "6">>}

EntryKeys == {"phone", "result_breakdown", "minutes_excluding_voicemail"}

Entries ==
    {e \in [keys : SUBSET EntryKeys, phone : Phones \cup {<<>>},
            result_breakdown : Breakdowns, minutes10 : {0, 15}] :
        /\ \/ e.keys = EntryKeys
           \/ e.keys = EntryKeys \ {"phone"}
           \/ e.keys = EntryKeys \ {"result_breakdown"}
           \/ e.keys = EntryKeys \ {"minutes_excluding_voicemail"}
        /\ ("phone" \in e.keys) = (e.phone # <<>>)
        /\ ("result_breakdown" \notin e.keys) => e.result_breakdown = <<>>
        /\ ("minutes_excluding_voicemail" \in e.keys) = (e.minutes10 # 0)}

PendingPayload == [NoPayload EXCEPT !.raised = "pending"]

IdleServer ==
    /\ store = <<>>
    /\ clock = 0
    /\ response = [code |-> 0]
    /\ apc = "idle"
    /\ afilter = "ALL"
    /\ asnap = <<>>
    /\ rep = [none |-> TRUE]

IdleNorm == entry = [keys |-> {}] /\ payload = PendingPayload

IdleSchema == jbody = [keys |-> {}] /\ jrecord = [state |-> "off"]

NotCleaned == [by |-> "none", n |-> 0, first |-> <<>>, text |-> <<>>]

IdlePhone == praw = <<>> /\ pclean = NotCleaned

IdleParse == results = <<>> /\ calls = <<>> /\ ppc = "off"

IdlePure == IdleSchema /\ IdlePhone /\ IdleParse

IdleReplay ==
    /\ rscript = "none"
    /\ rdata = <<>>
    /\ rpc = "off"
    /\ rattempt = 0
    /\ rlog = <<>>
    /\ rsuccess = 0
    /\ rfailed = 0
    /\ rtotal = 0

InitNorm ==
    /\ entry \in Entries
    /\ payload = PendingPayload
    /\ IdleServer
    /\ IdleReplay
    /\ IdlePure

\* payload = build_payload(entry), as in the loop of main
NormBuild ==
    /\ payload.raised = "pending"
    /\ payload' = build_payload(entry)
    /\ UNCHANGED <<entry, serverVars, replayVars, pureVars>>

NextNorm == NormBuild

SpecNorm == InitNorm /\ [][NextNorm]_vars

(***************************************************************************)
(* Claims about the normaliser (SpecNorm)                                  *)
(***************************************************************************)
PositiveRanks(rb) ==
    {k \in DOMAIN STATUS_PRIORITY :
        \E i \in DOMAIN rb : rb[i].label = STATUS_PRIORITY[k] /\ rb[i].count > 0}

MinOf(S) == CHOOSE k \in S : \A j \in S : k <= j

PriorityStatus(rb) ==
    IF PositiveRanks(rb) # {} THEN STATUS_PRIORITY[MinOf(PositiveRanks(rb))]
    ELSE IF rb # <<>> THEN rb[1].label
    ELSE "unknown"

DeriveSentiment(status) ==
    IF status = "success" THEN "satisfied"
    ELSE IF status \in {"not interested", "avoid callback"} THEN "upset"
    ELSE "neutral"

Built == payload.raised = "none"

\* C6: DominantStatus is the first label of the priority list with a positive
\* count (success wins whatever the other counts are); with no such label it
\* is the first key of the breakdown, and "unknown" for an empty breakdown.
C6_DominantIsPriority ==
    Built =>
        LET rb == EntryBreakdown(entry) IN
        /\ payload.status = PriorityStatus(rb)
        /\ (\E i \in DOMAIN rb : rb[i].label = "success" /\ rb[i].count > 0)
               => payload.status = "success"
        /\ rb = <<>> => payload.status = "unknown"

\* a built payload where "success" has the smaller count and still wins
C6_Witness ==
    /\ Built
    /\ EntryBreakdown(entry) = <<[label |-> "hang up", count |-> 9],
                                 [label |-> "success", count |-> 1]>>
    /\ payload.status = "success"

C12_NeverRaises ==
    /\ payload.raised \in {"pending", "none"}
    /\ Built =>
          /\ "minutes_excluding_voicemail" \notin entry.keys
                 => payload.duration = <<"0">>
          /\ "result_breakdown" \notin entry.keys
                 => payload.attempt = <<"0">> /\ payload.status = "unknown"

(***************************************************************************)
(* SpecReplay: main and post_with_retry of the two replay scripts          *)
(***************************************************************************)
SkipFirst  == 10   \* data = data[10:]
MaxEntries == 2    \* entries of the list beyond the skipped ones

GoodEntry ==
    [keys |-> EntryKeys, phone |-> <<"+", "3", "4", "6">>,
     result_breakdown |-> <<[label |-> "hang up", count |-> 1]>>, minutes10 |-> 15]

NoPhoneEntry ==
    [keys |-> EntryKeys \ {"phone"}, phone |-> <<>>,
     result_breakdown |-> <<[label |-> "success", count |-> 1]>>, minutes10 |-> 15]

ReplayEntries == {GoodEntry, NoPhoneEntry}

ReplayCall ==
    [phone |-> <<"+", "3", "4", "6">>, partner |-> "partner", duration |-> 30,
     status |-> "hang up", timestamp |-> <<"1">>, attempt |-> 1]

SeqsUpTo(S, n) == UNION {[1..k -> S] : k \in 0..n}

\* analysis.json: ten entries that were posted before, then the new ones;
\* or a file shorter than that
AnalysisFiles ==
    {[i \in 1..SkipFirst |-> GoodEntry] \o t : t \in SeqsUpTo(ReplayEntries, MaxEntries)}
    \cup {<<GoodEntry, GoodEntry>>}

\* the calls of results.json, parsed and numbered
CallLists == SeqsUpTo({ReplayCall}, MaxEntries)

InitReplay ==
    /\ rscript \in {"Spain_posts", "load_spain_combined"}
    /\ rdata \in IF rscript = "Spain_posts" THEN AnalysisFiles ELSE CallLists
    /\ rpc = "start"
    /\ rattempt = 0
    /\ rlog = <<>>
    /\ rsuccess = 0
    /\ rfailed = 0
    /\ rtotal = 0
    /\ IdleServer
    /\ IdleNorm
    /\ IdlePure

\* enumerate(data, 1): the index of the entry at hand
ReplayIndex == rtotal - Len(rdata) + 1

\* main, up to the loop.  Spain_posts: data = data[10:]; total = len(data).
\* load_spain_combined: total = len(calls), and calls[0] is read for the
\* date range, which raises IndexError on an empty list.
MainStart ==
    /\ rpc = "start"
    /\ IF rscript = "Spain_posts"
       THEN /\ rdata' = SubSeq(rdata, SkipFirst + 1, Len(rdata))
            /\ rtotal' = Len(rdata')
            /\ rpc' = "loop"
       ELSE /\ rdata' = rdata
            /\ rtotal' = Len(rdata)
            /\ rpc' = IF rdata = <<>> THEN "raised" ELSE "loop"
    /\ UNCHANGED <<rscript, rattempt, rlog, rsuccess, rfailed, serverVars, normVars, pureVars>>

ReplayPayload(item) ==
    IF rscript = "Spain_posts" THEN build_payload(item) ELSE lsc_build_payload(item)

\* the head of the for loop: the next entry's payload is built, or the loop
\* is over and the totals are printed
MainLoop ==
    /\ rpc = "loop"
    /\ IF rdata = <<>>
       THEN /\ rpc' = "done"
            /\ UNCHANGED <<payload, rattempt>>
       ELSE /\ payload' = ReplayPayload(Head(rdata))
            /\ rpc' = IF payload'.raised = "none" THEN "post" ELSE "raised"
            /\ rattempt' = 0
    /\ UNCHANGED <<entry, rscript, rdata, rlog, rsuccess, rfailed, rtotal, serverVars, pureVars>>

PostOutcomes == {"ok", "http_error", "exception"}

ShouldBackoffAlways(attempt) == TRUE

\* `if attempt == 0:` before time.sleep(1), in both failure branches
ShouldBackoff(attempt) == attempt = 0

\* one pass of `for attempt in range(2)` in post_with_retry
PostAttempt(outcome) ==
    /\ rpc = "post"
    /\ LET sent == Append(rlog, [ev |-> "post", i |-> ReplayIndex,
                                 a |-> rattempt, res |-> outcome])
           slept == IF ShouldBackoff(rattempt)
                    THEN Append(sent, [ev |-> "backoff", i |-> ReplayIndex,
                                       a |-> rattempt, res |-> outcome])
                    ELSE sent
       IN  IF outcome = "ok"
           THEN /\ rlog' = sent
                /\ rpc' = "ret_ok"
                /\ UNCHANGED rattempt
           ELSE /\ rlog' = slept
                /\ IF rattempt = 0
                   THEN rattempt' = 1 /\ rpc' = "post"
                   ELSE rpc' = "ret_fail" /\ UNCHANGED rattempt
    /\ UNCHANGED <<rscript, rdata, rsuccess, rfailed, rtotal, serverVars, normVars, pureVars>>

\* back in main: the entry is counted and the fixed delay is slept
MainTally ==
    /\ rpc \in {"ret_ok", "ret_fail"}
    /\ rsuccess' = IF rpc = "ret_ok" THEN rsuccess + 1 ELSE rsuccess
    /\ rfailed' = IF rpc = "ret_ok" THEN rfailed ELSE rfailed + 1
    /\ rlog' = rlog \o <<[ev |-> IF rpc = "ret_ok" THEN "ok" ELSE "skipped",
                          i |-> ReplayIndex, a |-> rattempt, res |-> "none"],
                         [ev |-> "delay", i |-> ReplayIndex, a |-> rattempt,
                          res |-> "none"]>>
    /\ rdata' = Tail(rdata)
    /\ rpc' = "loop"
    /\ UNCHANGED <<rscript, rattempt, rtotal, serverVars, normVars, pureVars>>

NextReplay ==
    \/ MainStart
    \/ MainLoop
    \/ \E outcome \in PostOutcomes : PostAttempt(outcome)
    \/ MainTally

SpecReplay == InitReplay /\ [][NextReplay]_vars

(***************************************************************************)
(* Claims about the replay scripts (SpecReplay)                            *)
(***************************************************************************)
LogIdx(ev, i) == {k \in DOMAIN rlog : rlog[k].ev = ev /\ rlog[k].i = i}

Failed(k) == rlog[k].ev = "post" /\ rlog[k].res # "ok"

\* entry i has been counted by main
Counted(i) == LogIdx("ok", i) \cup LogIdx("skipped", i) # {}

\* C7: at most two POSTs per entry; the second is sent iff the first failed,
\* right after exactly one backoff; success on either attempt counts the entry
\* as succeeded, two failures as failed; no third POST and no backoff after
\* the second failure.
C7_RetryPolicy ==
    \A i \in 1..rtotal :
        LET P == LogIdx("post", i)
            B == LogIdx("backoff", i)
        IN  /\ Cardinality(P) <= 2
            /\ \A k \in P : rlog[k].a \in {0, 1}
            /\ \A k, m \in P : (k < m) = (rlog[k].a < rlog[m].a)
            \* a second POST follows a failed first one and one backoff
            /\ \A k \in P : rlog[k].a = 1 =>
                   /\ k >= 3
                   /\ rlog[k - 1].ev = "backoff" /\ rlog[k - 1].i = i
                   /\ rlog[k - 2].i = i /\ rlog[k - 2].a = 0 /\ Failed(k - 2)
            \* the backoff is that of the first failure, and the only one
            /\ Cardinality(B) = IF \E k \in P : rlog[k].a = 0 /\ Failed(k) THEN 1 ELSE 0
            /\ \A k \in B : rlog[k].a = 0
            /\ Counted(i) =>
                   /\ (\E k \in P : rlog[k].a = 1) = (\E k \in P : rlog[k].a = 0 /\ Failed(k))
                   /\ (LogIdx("ok", i) # {}) = (\E k \in P : rlog[k].res = "ok")
                   /\ (LogIdx("skipped", i) # {})
                          = (Cardinality(P) = 2 /\ \A k \in P : Failed(k))
                   /\ \A k \in P : \A m \in LogIdx("ok", i) \cup LogIdx("skipped", i) : k < m

\* an entry that failed twice, in two different ways, and was given up
C7_Witness ==
    /\ rfailed = 1
    /\ \E k \in LogIdx("post", 1) : rlog[k].a = 0 /\ rlog[k].res = "http_error"
    /\ \E k \in LogIdx("post", 1) : rlog[k].a = 1 /\ rlog[k].res = "exception"
    /\ LogIdx("skipped", 1) # {}

\* C8: no entry aborts the batch: when the script has stopped, every entry
\* of the processed list has been attempted once, in list order, and counted
\* in exactly one of succeeded / failed, so that succeeded + failed = total,
\* and the delay was slept after each.
C8_BatchCompletes ==
    rpc \in {"done", "raised"} =>
        /\ rsuccess + rfailed = rtotal
        /\ \A i \in 1..rtotal :
               /\ Cardinality(LogIdx("ok", i) \cup LogIdx("skipped", i)) = 1
               /\ Cardinality(LogIdx("delay", i)) = 1
               /\ \E k \in LogIdx("post", i) : rlog[k].a = 0
        /\ \A k, m \in DOMAIN rlog : k < m => rlog[k].i <= rlog[m].i

(***************************************************************************)
(* models.py / schemas.py: the call_records table and the POST payload     *)
(***************************************************************************)
\* A row of call_records.  summary is nullable: <<>> is NULL, <<t>> the text t.
\* created_at is in hours since the epoch.
Row(id, phone, status, sentiment, call_human, summary, attempt, duration, country, at) ==
    [id |-> id, phone |-> phone, status |-> status, sentiment |-> sentiment,
     call_human |-> call_human, summary |-> summary, attempt |-> attempt,
     duration |-> duration, country |-> country, created_at |-> at]

\* the fields CallRecordCreate declares; pydantic ignores every other key of
\* the body, and reading an attribute that is no field raises AttributeError
CallRecordCreateFields ==
    {"phone", "status", "sentiment", "call_human", "summary", "attempt", "duration"}

\* A JSON value of the body: an integer, a boolean or text
JInt(n)  == [t |-> "int", n |-> n, b |-> FALSE, s |-> <<>>]
JBool(b) == [t |-> "bool", n |-> 0, b |-> b, s |-> <<>>]
JStr(s)  == [t |-> "str", n |-> 0, b |-> FALSE, s |-> s]
JNull    == [t |-> "null", n |-> 0, b |-> FALSE, s |-> <<>>]

IsDigit(c) == \E k \in DOMAIN Digits : Digits[k] = c
DigitVal(c) == (CHOOSE k \in DOMAIN Digits : Digits[k] = c) - 1

RECURSIVE DigitsToNat(_)
DigitsToNat(s) ==
    IF s = <<>> THEN 0
    ELSE DigitsToNat(SubSeq(s, 1, Len(s) - 1)) * 10 + DigitVal(s[Len(s)])

IsIntText(s) ==
    LET body == IF s # <<>> /\ Head(s) \in {"-", "+"} THEN Tail(s) ELSE s
    IN  body # <<>> /\ \A k \in DOMAIN body : IsDigit(body[k])

\* str.strip(): leading and trailing spaces go
RECURSIVE LStrip(_)
LStrip(s) == IF s # <<>> /\ Head(s) = " " THEN LStrip(Tail(s)) ELSE s

RECURSIVE RStrip(_)
RStrip(s) ==
    IF s # <<>> /\ s[Len(s)] = " " THEN RStrip(SubSeq(s, 1, Len(s) - 1)) ELSE s

Strip(s) == LStrip(RStrip(s))

\* str.upper(), on the letters the model's texts use
UpperChar(c) ==
    CASE c = "t" -> "T" [] c = "r" -> "R" [] c = "u" -> "U" [] c = "e" -> "E"
      [] c = "f" -> "F" [] c = "a" -> "A" [] c = "l" -> "L" [] c = "s" -> "S"
      [] OTHER -> c

Upper(s) == [k \in DOMAIN s |-> UpperChar(s[k])]

\* parse_int_fields: int(v), and 0 on ValueError / TypeError (None, text that
\* is no number)
parse_int_fields(v) ==
    CASE v.t = "int"  -> v.n
      [] v.t = "bool" -> IF v.b THEN 1 ELSE 0
      [] v.t = "null" -> 0
      [] v.t = "str"  ->
            LET x == Strip(v.s) IN
            IF IsIntText(x)
            THEN IF Head(x) = "-" THEN 0 - DigitsToNat(Tail(x))
                 ELSE IF Head(x) = "+" THEN DigitsToNat(Tail(x))
                 ELSE DigitsToNat(x)
            ELSE 0

\* parse_call_human: a bool as it is, else str(v).strip().upper() == "TRUE"
parse_call_human(v) ==
    CASE v.t = "bool" -> v.b
      [] v.t = "int"  -> FALSE
      [] v.t = "null" -> FALSE
      [] v.t = "str"  -> Upper(Strip(v.s)) = <<"T", "R", "U", "E">>

\* CallRecordCreate(**body): 422 without a phone; defaults for missing keys;
\* keys that are no field are dropped
Validate(body) ==
    [ok         |-> "phone" \in body.keys,
     phone      |-> body.phone,
     status     |-> IF "status" \in body.keys THEN body.status ELSE "neutral",
     sentiment  |-> IF "sentiment" \in body.keys THEN body.sentiment ELSE "neutral",
     call_human |-> IF "call_human" \in body.keys
                    THEN parse_call_human(body.call_human) ELSE FALSE,
     summary    |-> IF "summary" \in body.keys THEN <<body.summary>> ELSE <<>>,
     attempt    |-> IF "attempt" \in body.keys THEN parse_int_fields(body.attempt) ELSE 1,
     duration   |-> IF "duration" \in body.keys THEN parse_int_fields(body.duration) ELSE 0]

\* IEEE-754 / round(): x = S/3600 with 10x exactly half-way is S = 180k, k odd;
\* k/20 is then a double only for k = 5 mod 10, and round(x, 1) rounds the
\* nearest double, which lies above the tie for these k (k < 160):
HoursTieUp ==
    {1, 9, 11, 13, 15, 21, 27, 31, 35, 37, 47, 49, 55, 57, 59, 67,
        69, 75, 77, 79, 83, 89, 93, 95, 99, 103, 109, 113, 115, 119,
        123, 129, 133, 135, 139, 143, 149, 153, 155, 159}

\* round-half-even of num/den (den > 0, num >= 0), as round() does on a
\* value the double holds exactly
RoundHalfEven(num, den) ==
    LET q == num \div den
        r == num % den
    IN  IF 2 * r < den THEN q
        ELSE IF 2 * r > den THEN q + 1
        ELSE IF q % 2 = 0 THEN q ELSE q + 1

(***************************************************************************)
(* main.py: get_analytics, one operator per query                          *)
(***************************************************************************)
cf_only_pt(rows, country) ==
    IF country = "PT" THEN SelectSeq(rows, LAMBDA r : r.country = country) ELSE rows

\* cf: the country filter every query goes through
cf(rows, country) ==
    IF country \in {"PT", "ES"}
    THEN SelectSeq(rows, LAMBDA r : r.country = country)
    ELSE rows

\* func.count(...) over the rows a filter kept
Count(rows) == Len(rows)

\* func.sum(...) over one column, given as the column's values row by row
SumOf(col) == SumSeq(col)

handoff_rate_unguarded(human_needed, total_calls) ==
    IF total_calls = 0
    THEN [raised |-> TRUE, v |-> 0]
    ELSE [raised |-> FALSE, v |-> RoundHalfEven(human_needed * 1000, total_calls)]

\* round((human_needed / total_calls * 100) if total_calls > 0 else 0.0, 1),
\* in tenths of a percent; `raised` is ZeroDivisionError
handoff_rate(human_needed, total_calls) ==
    [raised |-> FALSE,
     v |-> IF total_calls > 0
           THEN RoundHalfEven(human_needed * 1000, total_calls) ELSE 0]

total_hours_saved_floor(seconds) == seconds \div 360

\* round(float(total_seconds_saved or 0) / 3600, 1), in tenths of an hour
total_hours_saved(seconds) ==
    IF seconds % 360 = 180
    THEN IF (seconds \div 180) \in HoursTieUp
         THEN seconds \div 360 + 1 ELSE seconds \div 360
    ELSE RoundHalfEven(seconds, 360)

\* query 1 and the lines after it.  The SQL aggregates are NULL over no row:
\* count gives 0, avg and sum give None, which `or 0` / `if ... else 0.0` turn
\* into 0.  avg_attempts is in hundredths, avg_duration in tenths.
SummaryStats(rows) ==
    LET total_calls  == Len(rows)
        human_needed == Count(SelectSeq(rows, LAMBDA r : r.call_human = TRUE))
        isNull       == rows = <<>>
        sum_attempt  == SumOf([i \in DOMAIN rows |-> rows[i].attempt])
        sum_duration == SumOf([i \in DOMAIN rows |-> rows[i].duration])
        sum_seconds  == SumOf([i \in DOMAIN rows |-> rows[i].duration + 120])
    IN  [total_calls       |-> total_calls,
         human_needed      |-> human_needed,
         avg_attempts      |-> IF isNull \/ sum_attempt = 0 THEN 0
                               ELSE RoundHalfEven(sum_attempt * 100, total_calls),
         avg_duration      |-> IF isNull \/ sum_duration = 0 THEN 0
                               ELSE RoundHalfEven(sum_duration * 10, total_calls),
         handoff_rate      |-> handoff_rate(human_needed, total_calls).v,
         total_hours_saved |-> total_hours_saved(IF isNull THEN 0 ELSE sum_seconds),
         total_attempts    |-> IF isNull THEN 0 ELSE sum_attempt]

\* query 1b: count(distinct phone)
PartnersContacted(rows) == Cardinality({rows[i].phone : i \in DOMAIN rows})

\* query 1b: count(id) where status != 'voicemail'
ConnectedCalls(rows) == Count(SelectSeq(rows, LAMBDA r : r.status # "voicemail"))

\* a GROUP BY count as a dict: key -> number of rows with that key
\* keys is the grouping column, row by row
GroupCount(keys) ==
    [k \in Range(keys) |-> Count(SelectSeq(keys, LAMBDA x : x = k))]

\* queries 2, 3 and 5
StatusDist(rows)    == GroupCount([i \in DOMAIN rows |-> rows[i].status])
SentimentDist(rows) == GroupCount([i \in DOMAIN rows |-> rows[i].sentiment])
AttemptsDist(rows)  == GroupCount([i \in DOMAIN rows |-> IntToStr(rows[i].attempt)])

\* the keys of a group, ascending (ORDER BY on an integer key)
RECURSIVE SortedSeq(_)
SortedSeq(S) ==
    IF S = {} THEN <<>>
    ELSE LET m == CHOOSE x \in S : \A y \in S : x <= y
         IN  <<m>> \o SortedSeq(S \ {m})

HoursPerDay == 24
WindowDays  == 30

DayOf(t)  == t \div HoursPerDay
HourOf(t) == t % HoursPerDay
\* extract(dow): 0 is Sunday; the epoch's day 0 was a Thursday
DowOf(t)  == (DayOf(t) + 4) % 7

\* query 4: rows of the last 30 days (boundary included) per day, by day
TimeRows(rows, now) ==
    LET recent == SelectSeq(rows, LAMBDA r : r.created_at >= now - WindowDays * HoursPerDay)
        days   == SortedSeq({DayOf(recent[i].created_at) : i \in DOMAIN recent})
    IN  [k \in DOMAIN days |->
            LET of == SelectSeq(recent, LAMBDA r : DayOf(r.created_at) = days[k])
            IN  [date         |-> days[k],
                 count        |-> Len(of),
                 avg_duration |-> RoundHalfEven(SumOf([i \in DOMAIN of |-> of[i].duration]) * 10,
                                                Len(of))]]

calls_over_time(rows, now) ==
    LET tr == TimeRows(rows, now)
    IN  [k \in DOMAIN tr |-> [date |-> tr[k].date, count |-> tr[k].count]]

duration_over_time(rows, now) ==
    LET tr == TimeRows(rows, now)
    IN  [k \in DOMAIN tr |-> [date |-> tr[k].date, avg_duration |-> tr[k].avg_duration]]

Connected(rows) == SelectSeq(rows, LAMBDA r : r.status \notin {"failed", "voicemail"})

\* queries 7 and 8
calls_by_hour(rows) ==
    LET c == Connected(rows)
        hs == SortedSeq({HourOf(c[i].created_at) : i \in DOMAIN c})
    IN  [k \in DOMAIN hs |->
            [hour |-> hs[k], count |-> Count(SelectSeq(c, LAMBDA r : HourOf(r.created_at) = hs[k]))]]

calls_by_dow(rows) ==
    LET c == Connected(rows)
        ds == SortedSeq({DowOf(c[i].created_at) : i \in DOMAIN c})
    IN  [k \in DOMAIN ds |->
            [dow |-> ds[k], count |-> Count(SelectSeq(c, LAMBDA r : DowOf(r.created_at) = ds[k]))]]

RecentLimit == 20

\* ORDER BY created_at DESC: the newest row first; among rows of one
\* created_at the database is free, `tb` is the order it happens to use
Newest(rows, tb) ==
    CHOOSE i \in DOMAIN rows :
        \A j \in DOMAIN rows :
            \/ rows[j].created_at < rows[i].created_at
            \/ /\ rows[j].created_at = rows[i].created_at
               /\ IF tb = "id asc" THEN rows[i].id <= rows[j].id
                                   ELSE rows[i].id >= rows[j].id

RECURSIVE OrderDesc(_, _, _)
OrderDesc(rows, tb, limit) ==
    IF rows = <<>> \/ limit = 0 THEN <<>>
    ELSE LET i == Newest(rows, tb)
         IN  <<rows[i]>>
             \o OrderDesc(SubSeq(rows, 1, i - 1) \o SubSeq(rows, i + 1, Len(rows)),
                          tb, limit - 1)

\* one element of recent_calls
RecentItem(r) ==
    [id |-> r.id, phone |-> r.phone, status |-> r.status, sentiment |-> r.sentiment,
     call_human |-> r.call_human,
     summary |-> IF r.summary = <<>> THEN "" ELSE r.summary[1],
     attempt |-> r.attempt, duration |-> r.duration, created_at |-> r.created_at]

\* query 6: the 20 newest rows
recent_calls(rows, tb) ==
    LET top == OrderDesc(rows, tb, RecentLimit)
    IN  [k \in DOMAIN top |-> RecentItem(top[k])]

BlankReport ==
    [summary |-> [total_calls |-> 0, human_needed |-> 0, avg_attempts |-> 0,
                  avg_duration |-> 0, handoff_rate |-> 0, total_hours_saved |-> 0,
                  total_attempts |-> 0, partners_contacted |-> 0,
                  connected_calls |-> 0],
     status_distribution |-> <<>>, sentiment_distribution |-> <<>>,
     calls_over_time |-> <<>>, duration_over_time |-> <<>>,
     attempts_distribution |-> <<>>, recent_calls |-> <<>>,
     calls_by_hour |-> <<>>, calls_by_dow |-> <<>>]

\* the report get_analytics returns when all its queries see `rows` (the
\* filtered rows) at time `now`
FullReport(rows, now, tb) ==
    LET st == SummaryStats(rows)
    IN  [summary |-> [total_calls        |-> st.total_calls,
                      human_needed       |-> st.human_needed,
                      avg_attempts       |-> st.avg_attempts,
                      avg_duration       |-> st.avg_duration,
                      handoff_rate       |-> st.handoff_rate,
                      total_hours_saved  |-> st.total_hours_saved,
                      total_attempts     |-> st.total_attempts,
                      partners_contacted |-> PartnersContacted(rows),
                      connected_calls    |-> ConnectedCalls(rows)],
         status_distribution    |-> StatusDist(rows),
         sentiment_distribution |-> SentimentDist(rows),
         calls_over_time        |-> calls_over_time(rows, now),
         duration_over_time     |-> duration_over_time(rows, now),
         attempts_distribution  |-> AttemptsDist(rows),
         recent_calls           |-> recent_calls(rows, tb),
         calls_by_hour          |-> calls_by_hour(rows),
         calls_by_dow           |-> calls_by_dow(rows)]

(***************************************************************************)
(* seed_data.py                                                            *)
(***************************************************************************)
STATUSES ==
    <<"avoid callback", "hang up", "success", "failed", "not the right person",
      "not interested">>

SENTIMENTS == <<"Satisfied", "neutral", "upset">>

SeedPerStatus == 8

\* DURATION_RANGES[status]
DurationRange(status) ==
    CASE status = "success"              -> [lo |-> 90, hi |-> 420]
      [] status = "hang up"              -> [lo |-> 0, hi |-> 30]
      [] status = "avoid callback"       -> [lo |-> 20, hi |-> 120]
      [] status = "failed"               -> [lo |-> 0, hi |-> 15]
      [] status = "not the right person" -> [lo |-> 15, hi |-> 90]
      [] status = "not interested"       -> [lo |-> 30, hi |-> 180]

\* What the random module hands out in one run of seed: every sentiment has a
\* positive weight for every status, call_human is a coin, attempt is
\* randint(1, 3), the duration is in the status's range.  One draw serves all
\* records of the run.
SeedDraws ==
    {[sentiment |-> "Satisfied", call_human |-> FALSE, attempt |-> 1, high |-> FALSE,
      phone |-> <<"+", "3", "4", "6", "1", "8">>, extra |-> "failed"],
     [sentiment |-> "neutral", call_human |-> TRUE, attempt |-> 3, high |-> TRUE,
      phone |-> <<"+", "3", "4", "6", "2", "2">>, extra |-> "success"],
     [sentiment |-> "upset", call_human |-> FALSE, attempt |-> 2, high |-> FALSE,
      phone |-> <<"+", "3", "4", "6", "1", "8">>, extra |-> "hang up"]}

\* random_date(30) for the k-th record: up to 30 days 23 h back; the model
\* spaces the records 15 h apart
SeedOffset(k) == 15 * (k - 1)

\* build_record(status, attempt); country is not set: the column default "PT"
build_record(status, attempt, draw, k, now) ==
    Row(0, draw.phone, status, draw.sentiment, draw.call_human, <<status>>,
        attempt,
        IF draw.high THEN DurationRange(status).hi ELSE DurationRange(status).lo,
        "PT", now - SeedOffset(k))

\* the records of seed(n), before the shuffle
SeedRecords(n, draw, now) ==
    LET fixed == Len(STATUSES) * SeedPerStatus
        total == IF n > fixed THEN n ELSE fixed
    IN  [k \in 1..total |->
            build_record(IF k <= fixed THEN STATUSES[((k - 1) \div SeedPerStatus) + 1]
                         ELSE draw.extra,
                         draw.attempt, draw, k, now)]

Reverse(s) == [k \in DOMAIN s |-> s[Len(s) + 1 - k]]

\* bulk_save_objects + commit: the rows get the next ids, in list order
InsertAll(rows, new) ==
    rows \o [k \in DOMAIN new |-> [new[k] EXCEPT !.id = Len(rows) + k]]

(***************************************************************************)
(* Spec: the API server, the seeder and the table they share               *)
(***************************************************************************)
MaxInitRows == 1    \* rows the table holds when the server starts
MaxRows     == 49   \* rows the table may grow to
SeedSizes   == {1}  \* the n of seed(n)

Now0 == 41 * HoursPerDay + 16

\* Rows found in the table at start-up (the table outlives the process:
\* lifespan only adds what is missing).  They satisfy the data model.
PreRows ==
    {Row(0, <<"+", "3", "5", "1", "9">>, "success", "satisfied", FALSE,
         <<"1 success">>, 1, 60, "PT", Now0 - 15),
     Row(0, <<"+", "3", "4", "6">>, "callback requested", "neutral", TRUE,
         <<>>, 2, 0, "ES", Now0 - WindowDays * HoursPerDay),
     Row(0, <<"+", "3", "4", "6">>, "voicemail", "neutral", FALSE,
         <<"1 voicemail">>, 1, 30, "ES", Now0 - WindowDays * HoursPerDay - 1)}

\* A table of ten calls lasting 0, 30, ..., 270 s, the third and the sixth of
\* which asked for a human.
ScenarioRows ==
    [k \in 1..10 |->
        Row(0, <<"+", "3", "4", "6">>, "hang up", "neutral", k \in {3, 6}, <<>>,
            1, 30 * (k - 1), "ES", Now0 - k)]

InitStores ==
    {InsertAll(<<>>, s) : s \in SeqsUpTo(PreRows, MaxInitRows)}
    \cup {InsertAll(<<>>, ScenarioRows)}

\* the label of a payload as JSON text
TextOf(label) ==
    IF label = "TRUE" THEN <<"T", "R", "U", "E">> ELSE <<"F", "A", "L", "S", "E">>

BodyKeys ==
    {"phone", "status", "sentiment", "call_human", "summary", "attempt",
     "duration", "country"}

\* session.post(API_URL, json=payload): the body a replay script sends
BodyOf(pl) ==
    [keys |-> BodyKeys, phone |-> pl.phone, status |-> pl.status,
     sentiment |-> pl.sentiment, call_human |-> JStr(TextOf(pl.call_human)),
     summary |-> pl.summary.text, attempt |-> JStr(pl.attempt),
     duration |-> JStr(pl.duration), country |-> pl.country, created_at |-> 0]

\* The bodies POSTed in the model: one of each replay script, one with native
\* types and an explicit created_at, one without a phone.
ApiBodies ==
    <<BodyOf(build_payload(GoodEntry)),
      BodyOf(lsc_build_payload(ReplayCall)),
      [keys |-> BodyKeys \cup {"created_at"}, phone |-> <<"+", "3", "5", "1", "9">>,
       status |-> "success", sentiment |-> "upset", call_human |-> JBool(TRUE),
       summary |-> "", attempt |-> JInt(2), duration |-> JInt(45),
       country |-> "PT", created_at |-> Now0 - 2],
      [keys |-> {"status"}, phone |-> <<>>,
       status |-> "success", sentiment |-> "", call_human |-> JNull,
       summary |-> "", attempt |-> JNull, duration |-> JNull,
       country |-> "", created_at |-> 0]>>

\* the attributes of `payload` receive_call reads to build the record
PayloadReads ==
    <<"phone", "status", "sentiment", "call_human", "summary", "attempt",
      "duration", "country">>

Init ==
    /\ store \in InitStores
    /\ clock = Now0
    /\ response = [code |-> 0, req |-> 0]
    /\ apc = "idle"
    /\ afilter = "ALL"
    /\ asnap = <<>>
    /\ rep = BlankReport
    /\ IdleNorm
    /\ IdleReplay
    /\ IdlePure

\* POST /api/calls with body ApiBodies[b]
receive_call(b) ==
    LET body == ApiBodies[b]
        v    == Validate(body)
    IN  /\ IF ~v.ok
           THEN \* pydantic rejects the body: 422
                /\ response' = [code |-> 422, req |-> b]
                /\ UNCHANGED store
           ELSE IF \E k \in DOMAIN PayloadReads : PayloadReads[k] \notin CallRecordCreateFields
           THEN \* payload.country: AttributeError, before db.add: 500
                /\ response' = [code |-> 500, req |-> b]
                /\ UNCHANGED store
           ELSE /\ Len(store) < MaxRows
                /\ store' = Append(store,
                       Row(Len(store) + 1, v.phone, v.status, v.sentiment,
                           v.call_human, v.summary, v.attempt, v.duration,
                           body.country,
                           IF "created_at" \in body.keys /\ body.created_at # 0
                           THEN body.created_at ELSE clock))
                /\ response' = [code |-> 201, req |-> b]
        /\ UNCHANGED <<clock, apc, afilter, asnap, rep, normVars, replayVars, pureVars>>

\* python seed_data.py n: the records are built, shuffled and committed at once
seed(n, draw, shuffle) ==
    LET built == SeedRecords(n, draw, clock)
        recs  == IF shuffle = "reversed" THEN Reverse(built) ELSE built
    IN  /\ Len(store) + Len(recs) <= MaxRows
        /\ store' = InsertAll(store, recs)
        /\ UNCHANGED <<clock, response, apc, afilter, asnap, rep, normVars, replayVars, pureVars>>

SessionViewReadCommitted(snap, cur) == cur

\* What a query of the request's database session sees once the session has
\* read: the rows as of its first query (one snapshot per request).
SessionView(snap, cur) == snap

\* the rows the query at hand works on
Visible == cf(SessionView(asnap, store), afilter)

Filters == {"ALL", "PT", "ES", "XX"}

\* GET /api/analytics?country=c arrives
AnalyzeBegin(c) ==
    /\ apc \in {"idle", "done"}
    /\ apc' = "q1"
    /\ afilter' = c
    /\ rep' = BlankReport
    /\ asnap' = <<>>
    /\ UNCHANGED <<store, clock, response, normVars, replayVars, pureVars>>

AStep(from, to) ==
    /\ apc = from
    /\ apc' = to
    /\ UNCHANGED <<store, clock, response, afilter, normVars, replayVars, pureVars>>

\* query 1, the session's first: summary statistics
AnalyzeQ1 ==
    /\ apc = "q1"
    /\ asnap' = store
    /\ LET rows == cf(store, afilter)
           st   == SummaryStats(rows)
       IN  IF handoff_rate(st.human_needed, st.total_calls).raised
           THEN apc' = "raised" /\ UNCHANGED rep
           ELSE /\ apc' = "q1b"
                /\ rep' = [rep EXCEPT !.summary =
                              [f \in DOMAIN rep.summary |->
                                  IF f \in DOMAIN st THEN st[f] ELSE rep.summary[f]]]
    /\ UNCHANGED <<store, clock, response, afilter, normVars, replayVars, pureVars>>

AnalyzeQ1b ==
    /\ AStep("q1b", "q1c")
    /\ rep' = [rep EXCEPT !.summary.partners_contacted = PartnersContacted(Visible)]
    /\ UNCHANGED asnap

AnalyzeQ1c ==
    /\ AStep("q1c", "q2")
    /\ rep' = [rep EXCEPT !.summary.connected_calls = ConnectedCalls(Visible)]
    /\ UNCHANGED asnap

AnalyzeQ2 ==
    /\ AStep("q2", "q3")
    /\ rep' = [rep EXCEPT !.status_distribution = StatusDist(Visible)]
    /\ UNCHANGED asnap

AnalyzeQ3 ==
    /\ AStep("q3", "q4")
    /\ rep' = [rep EXCEPT !.sentiment_distribution = SentimentDist(Visible)]
    /\ UNCHANGED asnap

\* thirty_days_ago = utcnow() - 30 days, then query 4
AnalyzeQ4 ==
    /\ AStep("q4", "q5")
    /\ rep' = [rep EXCEPT !.calls_over_time = calls_over_time(Visible, clock),
                          !.duration_over_time = duration_over_time(Visible, clock)]
    /\ UNCHANGED asnap

AnalyzeQ5 ==
    /\ AStep("q5", "q6")
    /\ rep' = [rep EXCEPT !.attempts_distribution = AttemptsDist(Visible)]
    /\ UNCHANGED asnap

AnalyzeQ6(tb) ==
    /\ AStep("q6", "q7")
    /\ rep' = [rep EXCEPT !.recent_calls = recent_calls(Visible, tb)]
    /\ UNCHANGED asnap

AnalyzeQ7 ==
    /\ AStep("q7", "q8")
    /\ rep' = [rep EXCEPT !.calls_by_hour = calls_by_hour(Visible)]
    /\ UNCHANGED asnap

\* query 8 and the return of the report
AnalyzeQ8 ==
    /\ AStep("q8", "done")
    /\ rep' = [rep EXCEPT !.calls_by_dow = calls_by_dow(Visible)]
    /\ UNCHANGED asnap

Analyze ==
    \/ \E c \in Filters : AnalyzeBegin(c)
    \/ AnalyzeQ1
    \/ AnalyzeQ1b
    \/ AnalyzeQ1c
    \/ AnalyzeQ2
    \/ AnalyzeQ3
    \/ AnalyzeQ4
    \/ AnalyzeQ5
    \/ \E tb \in {"id asc", "id desc"} : AnalyzeQ6(tb)
    \/ AnalyzeQ7
    \/ AnalyzeQ8

Next ==
    \/ \E b \in DOMAIN ApiBodies : receive_call(b)
    \/ \E n \in SeedSizes, draw \in SeedDraws : seed(n, draw, "reversed")
    \/ Analyze

Spec == Init /\ [][Next]_vars

(***************************************************************************)
(* Claims about the server (Spec)                                          *)
(***************************************************************************)
Bucket(dist, key) == IF key \in DOMAIN dist THEN dist[key] ELSE 0

RECURSIVE SumOver(_, _)
SumOver(dist, keys) ==
    IF keys = {} THEN 0
    ELSE LET k == CHOOSE x \in keys : TRUE
         IN  dist[k] + SumOver(dist, keys \ {k})

DistTotal(dist) == SumOver(dist, DOMAIN dist)

IsPrefix(s, t) == Len(s) <= Len(t) /\ SubSeq(t, 1, Len(s)) = s

\* what Analyze with no country filter returns on the table as it is
AnalyzeAll(rows) == FullReport(cf(rows, "ALL"), clock, "id asc")

\* a POST /api/calls of a body the schema accepts has just been answered
IngestStep == response' # response /\ response'.code # 422

\* C1: round trip: an Ingest of a valid payload raises what Analyze (no
\* filter) returns for total_calls by exactly 1, and likewise the bucket of
\* the payload's status and the bucket of its sentiment.
C1_RoundTrip ==
    [][IngestStep =>
          LET v      == Validate(ApiBodies[response'.req])
              before == AnalyzeAll(store)
              after  == AnalyzeAll(store')
          IN  /\ after.summary.total_calls = before.summary.total_calls + 1
              /\ Bucket(after.status_distribution, v.status)
                     = Bucket(before.status_distribution, v.status) + 1
              /\ Bucket(after.sentiment_distribution, v.sentiment)
                     = Bucket(before.sentiment_distribution, v.sentiment) + 1]_vars

\* C2: every returned report is of one snapshot: total_calls equals the sum
\* of the status, of the sentiment and of the attempts distribution, whatever
\* was inserted between the queries.
C2_ConsistentSnapshot ==
    apc = "done" =>
        /\ rep.summary.total_calls = DistTotal(rep.status_distribution)
        /\ rep.summary.total_calls = DistTotal(rep.sentiment_distribution)
        /\ rep.summary.total_calls = DistTotal(rep.attempts_distribution)

\* a report returned after rows were committed while it was being computed
C2_Witness ==
    /\ apc = "done"
    /\ rep.summary.total_calls > 0
    /\ Len(store) > Len(asnap)

\* C3: the table is an append-only log: no row is ever changed or removed, an
\* Ingest adds exactly one row, a step of Analyze leaves the table as it is.
C3_AppendOnly ==
    [][/\ IsPrefix(store, store')
       /\ IngestStep => Len(store') = Len(store) + 1
       /\ apc' # apc => store' = store]_vars

MatchingRows(rows, country) ==
    IF country = "PT" THEN SelectSeq(rows, LAMBDA r : r.country = "PT")
    ELSE IF country = "ES" THEN SelectSeq(rows, LAMBDA r : r.country = "ES")
    ELSE rows

\* C4: with filter PT (ES) the whole report is computed from the rows of that
\* country only; with any other filter it is the report over all rows; the
\* request never fails.
C4_CountryFilter ==
    /\ apc # "raised"
    /\ apc = "done" =>
          LET rows == MatchingRows(asnap, afilter) IN
          /\ LET all == FullReport(rows, clock, "id asc")
             IN  /\ [rep EXCEPT !.recent_calls = <<>>] = [all EXCEPT !.recent_calls = <<>>]
                 /\ rep.recent_calls \in {all.recent_calls, recent_calls(rows, "id desc")}
          /\ rep.summary.total_calls
                 = Cardinality({i \in DOMAIN asnap :
                                    afilter \in {"PT", "ES"} => asnap[i].country = afilter})
          /\ \A k \in DOMAIN rep.recent_calls :
                 afilter \in {"PT", "ES"}
                     => asnap[rep.recent_calls[k].id].country = afilter

\* a PT report over a table that also holds ES rows
C4_Witness ==
    /\ apc = "done"
    /\ afilter = "PT"
    /\ \E i \in DOMAIN asnap : asnap[i].country = "ES"
    /\ rep.summary.total_calls > 1
    /\ rep.summary.total_calls < Len(asnap)

\* C5: over no row (an empty table, or a filter no row matches) Analyze does
\* not fail and returns zeros and empty collections.
C5_EmptyDefaults ==
    /\ apc # "raised"
    /\ (apc = "done" /\ MatchingRows(asnap, afilter) = <<>>) =>
          /\ rep.summary.total_calls = 0
          /\ rep.summary.human_needed = 0
          /\ rep.summary.handoff_rate = 0
          /\ rep.summary.avg_attempts = 0
          /\ rep.summary.avg_duration = 0
          /\ rep.summary.total_hours_saved = 0
          /\ DOMAIN rep.status_distribution = {}
          /\ DOMAIN rep.sentiment_distribution = {}
          /\ DOMAIN rep.attempts_distribution = {}
          /\ Len(rep.calls_over_time) = 0
          /\ Len(rep.duration_over_time) = 0
          /\ Len(rep.recent_calls) = 0

\* an ES report over a table that holds PT rows only
C5_Witness ==
    /\ apc = "done"
    /\ afilter = "ES"
    /\ Len(asnap) > 0
    /\ rep.summary.total_calls = 0

Abs(x) == IF x < 0 THEN 0 - x ELSE x

\* C13: over a non-empty record set human_needed is the number of rows with
\* call_human true (0 <= human_needed <= total_calls), handoff_rate is
\* human_needed / total_calls x 100 to the nearest tenth (within 0..100) and
\* total_hours_saved is the sum of duration + 120 over 3600 to the nearest
\* tenth; ten rows of 0, 30, ..., 270 s with two hand-offs give 20.0 and 0.7.
\* (The report holds both in tenths.)
C13_SummaryRates ==
    apc = "done" =>
        LET rows == MatchingRows(asnap, afilter)
            t    == Len(rows)
            h    == Cardinality({i \in DOMAIN rows : rows[i].call_human = TRUE})
            secs == SumSeq([i \in DOMAIN rows |-> rows[i].duration + 120])
            rate == rep.summary.handoff_rate
            hrs  == rep.summary.total_hours_saved
        IN  t > 0 =>
              /\ rep.summary.total_calls = t
              /\ rep.summary.human_needed = h
              /\ 0 <= h /\ h <= t
              /\ 0 <= rate /\ rate <= 1000
              /\ 2 * Abs(rate * t - 1000 * h) <= t
              /\ 2 * Abs(360 * hrs - secs) <= 360
              /\ (t = 10 /\ h = 2 /\ \A i \in DOMAIN rows : rows[i].duration = 30 * (i - 1))
                     => rate = 200 /\ hrs = 7

\* the report over the ten-call table
C13_Witness ==
    /\ apc = "done"
    /\ afilter \in {"ALL", "ES"}
    /\ Len(asnap) = 10
    /\ \A i \in DOMAIN asnap : asnap[i].duration = 30 * (i - 1)
    /\ rep.summary.human_needed = 2
    /\ rep.summary.handoff_rate = 200
    /\ rep.summary.total_hours_saved = 7

PublicFields ==
    {"id", "phone", "status", "sentiment", "call_human", "summary", "attempt",
     "duration", "country", "created_at"}

\* the recent list is the newest min(20, matching rows) rows, newest first
RecentIsNewest(rows, rc) ==
    /\ Len(rc) = IF Len(rows) < 20 THEN Len(rows) ELSE 20
    /\ \A k, m \in DOMAIN rc : k < m => rc[k].created_at >= rc[m].created_at
    /\ \A k, m \in DOMAIN rc : k # m => rc[k].id # rc[m].id
    /\ \A k \in DOMAIN rc :
           \E i \in DOMAIN rows :
               /\ rows[i].id = rc[k].id
               /\ rows[i].created_at = rc[k].created_at
               /\ rows[i].phone = rc[k].phone
               /\ rows[i].status = rc[k].status
    /\ \A i \in DOMAIN rows :
           (\A k \in DOMAIN rc : rc[k].id # rows[i].id)
               => \A k \in DOMAIN rc : rows[i].created_at <= rc[k].created_at

\* C14: the recent list of a report holds min(20, matching rows) rows, newest
\* first, no row left out is newer than a listed one, and every listed row
\* carries the full public field set (id, phone, status, sentiment,
\* call_human, summary, attempt, duration, country, created_at).
C14_RecentRecords ==
    apc = "done" =>
        /\ RecentIsNewest(MatchingRows(asnap, afilter), rep.recent_calls)
        /\ \A k \in DOMAIN rep.recent_calls :
               DOMAIN rep.recent_calls[k] = PublicFields

\* C10: every row's sentiment is one of satisfied / neutral / upset and is the
\* one its status determines.
C10_SentimentDerived ==
    \A i \in DOMAIN store :
        /\ store[i].sentiment \in {"satisfied", "neutral", "upset"}
        /\ store[i].sentiment = DeriveSentiment(store[i].status)

(***************************************************************************)
(* SpecSchema: CallRecordCreate applied to every bounded request body      *)
(***************************************************************************)
\* what a client may send for attempt / duration: numbers, numeric text
\* (signed, padded), text that is no number, the empty text, null, a boolean
IntInputs ==
    {JInt(2), JInt(0), JInt(0 - 3), JStr(<<"3">>), JStr(<<"-", "4">>),
     JStr(<<"a", "b">>), JStr(<<>>), JStr(<<" ", "7", " ">>), JNull, JBool(TRUE)}

\* ... and for call_human
BoolInputs ==
    {JBool(TRUE), JBool(FALSE), JStr(<<" ", "t", "r", "u", "e">>),
     JStr(<<"F", "A", "L", "S", "E">>), JInt(1), JNull}

SchemaKeySets ==
    {BodyKeys, BodyKeys \ {"attempt"}, BodyKeys \ {"duration"},
     BodyKeys \ {"call_human"}, BodyKeys \ {"phone"}, {"phone"}}

RawBodies ==
    {b \in [keys : SchemaKeySets, phone : {<<"+", "3", "4", "6">>},
            status : {"hang up"}, sentiment : {"neutral"},
            call_human : BoolInputs, summary : {""}, attempt : IntInputs,
            duration : IntInputs, country : {"ES"}, created_at : {0}] :
        /\ ("attempt" \notin b.keys) => b.attempt = JNull
        /\ ("duration" \notin b.keys) => b.duration = JNull
        /\ ("call_human" \notin b.keys) => b.call_human = JNull}

\* analysis.json entries whose payload is posted: a usual one, one with an
\* empty breakdown, one with none, one whose counts are all zero
EmptyBreakdownEntry == [GoodEntry EXCEPT !.result_breakdown = <<>>]

SchemaEntries ==
    {GoodEntry,
     EmptyBreakdownEntry,
     [EmptyBreakdownEntry EXCEPT !.keys = EntryKeys \ {"result_breakdown"}],
     [GoodEntry EXCEPT !.result_breakdown = <<[label |-> "voicemail", count |-> 0]>>]}

SchemaBodies ==
    RawBodies
    \cup {BodyOf(build_payload(e)) : e \in SchemaEntries}
    \cup {BodyOf(lsc_build_payload(ReplayCall))}

InitSchema ==
    /\ jbody \in SchemaBodies
    /\ jrecord = [state |-> "pending"]
    /\ IdleServer
    /\ IdleNorm
    /\ IdleReplay
    /\ IdlePhone
    /\ IdleParse

\* payload: CallRecordCreate, as FastAPI builds it from the body before
\* receive_call runs; a body without a phone is answered 422
SchemaValidate ==
    /\ jrecord.state = "pending"
    /\ LET v == Validate(jbody)
       IN  jrecord' =
               IF v.ok
               THEN [state |-> "valid", phone |-> v.phone, status |-> v.status,
                     sentiment |-> v.sentiment, call_human |-> v.call_human,
                     summary |-> v.summary, attempt |-> v.attempt,
                     duration |-> v.duration]
               ELSE [state |-> "422"]
    /\ UNCHANGED <<jbody, serverVars, normVars, replayVars, phoneVars, parseVars>>

NextSchema == SchemaValidate

SpecSchema == InitSchema /\ [][NextSchema]_vars

MaxPhoneLen == 4   \* the longest raw text, but for the documented example

PhoneChars == {"+", " ", "3"}

ExamplePhone ==
    <<"+", "+", "3", "5", "1", " ", "9", "1", "1", " ", "2", "2", "2", "3", "3", "3">>

PhoneTexts == SeqsUpTo(PhoneChars, MaxPhoneLen) \cup {ExamplePhone}

CleanBy(script, raw) ==
    IF script = "Spain_posts" THEN clean_phone(raw) ELSE lsc_clean_phone(raw)

InitPhone ==
    /\ praw \in PhoneTexts
    /\ pclean = NotCleaned
    /\ IdleServer
    /\ IdleNorm
    /\ IdleReplay
    /\ IdleSchema
    /\ IdleParse

\* phone = clean_phone(raw), in one of the scripts
CleanFirst(script) ==
    /\ pclean.n = 0
    /\ pclean' = [by |-> script, n |-> 1, first |-> CleanBy(script, praw),
                  text |-> CleanBy(script, praw)]
    /\ UNCHANGED <<praw, serverVars, normVars, replayVars, schemaVars, parseVars>>

\* the cleaned text goes through clean_phone once more
CleanAgain ==
    /\ pclean.n = 1
    /\ pclean' = [pclean EXCEPT !.n = 2, !.text = CleanBy(pclean.by, pclean.text)]
    /\ UNCHANGED <<praw, serverVars, normVars, replayVars, schemaVars, parseVars>>

NextPhone ==
    \/ \E script \in {"Spain_posts", "load_spain_combined"} : CleanFirst(script)
    \/ CleanAgain

SpecPhone == InitPhone /\ [][NextPhone]_vars

(***************************************************************************)
(* Claims about clean_phone (SpecPhone)                                    *)
(***************************************************************************)
RECURSIVE PlusRun(_)
PlusRun(s) == IF s # <<>> /\ Head(s) = "+" THEN 1 + PlusRun(Tail(s)) ELSE 0

\* the text without its spaces, its leading run of '+' collapsed to one '+'
Collapsed(raw) ==
    LET t == SelectSeq(raw, LAMBDA c : c # " ")
        n == PlusRun(t)
    IN  (IF n >= 1 THEN <<"+">> ELSE <<>>) \o SubSeq(t, n + 1, Len(t))

\* C15: CleanPhone's result has no space and does not start with "++": the
\* leading run of '+' is collapsed to one '+' and every other character is
\* kept in order ("++351 911 222333" gives "+351911222333"); cleaning the
\* result again changes nothing; both scripts' clean_phone give this result.
C15_CleanPhone ==
    pclean.n >= 1 =>
        /\ \A k \in DOMAIN pclean.text : pclean.text[k] # " "
        /\ ~(Len(pclean.text) >= 2 /\ pclean.text[1] = "+" /\ pclean.text[2] = "+")
        /\ pclean.text = Collapsed(praw)
        /\ pclean.text = pclean.first
        /\ clean_phone(praw) = pclean.text
        /\ lsc_clean_phone(praw) = pclean.text
        /\ praw = ExamplePhone
               => pclean.text = <<"+", "3", "5", "1", "9", "1", "1", "2", "2", "2",
                                  "3", "3", "3">>

\* the documented example, cleaned twice
C15_Witness ==
    /\ praw = ExamplePhone
    /\ pclean.n = 2
    /\ pclean.text = <<"+", "3", "5", "1", "9", "1", "1", "2", "2", "2", "3", "3", "3">>

(***************************************************************************)
(* load_spain_combined.py: parse_results and assign_attempts               *)
(***************************************************************************)
\* An entry of results.json: `ekeys` are the keys it has, `dkeys` the keys of
\* its "data" dict (the UUID-prefixed keys, by their last part).  Timestamps
\* are texts of digits, compared as Python compares strings.
DataHas(e, key) == "data" \in e.ekeys /\ key \in e.dkeys

\* data.get(KEY_PHONE, ""), data.get(KEY_PARTNER, "unknown"), ...
DataPhone(e)    == IF DataHas(e, "to_number") THEN e.phone ELSE <<>>
DataPartner(e)  == IF DataHas(e, "partner_name") THEN e.partner ELSE "unknown"
DataDuration(e) == IF DataHas(e, "duration") THEN e.duration ELSE JInt(0)
DataStatus(e)   == IF DataHas(e, "classification") THEN e.status ELSE "unknown"

\* entry.get("timestamp", entry.get("completed_at", ""))
EntryTimestamp(e) ==
    IF "timestamp" \in e.ekeys THEN e.timestamp
    ELSE IF "completed_at" \in e.ekeys THEN e.completed_at
    ELSE <<>>

\* int(v), not guarded: ValueError on text that is no number, TypeError on None
PyInt(v) ==
    CASE v.t = "int"  -> [raised |-> "none", n |-> v.n]
      [] v.t = "bool" -> [raised |-> "none", n |-> IF v.b THEN 1 ELSE 0]
      [] v.t = "null" -> [raised |-> "TypeError", n |-> 0]
      [] v.t = "str"  ->
            IF IsIntText(Strip(v.s))
            THEN [raised |-> "none", n |-> parse_int_fields(v)]
            ELSE [raised |-> "ValueError", n |-> 0]

\* str < str: by the first character that differs, a proper prefix first
RECURSIVE TextLess(_, _)
TextLess(a, b) ==
    IF b = <<>> THEN FALSE
    ELSE IF a = <<>> THEN TRUE
    ELSE IF Head(a) = Head(b) THEN TextLess(Tail(a), Tail(b))
    ELSE DigitVal(Head(a)) < DigitVal(Head(b))

\* the for loop of parse_results
RECURSIVE ParseLoop(_, _)
ParseLoop(rest, acc) ==
    IF rest = <<>> THEN [raised |-> "none", calls |-> acc]
    ELSE LET e        == Head(rest)
             phone    == lsc_clean_phone(DataPhone(e))
             duration == PyInt(DataDuration(e))
         IN  IF duration.raised # "none"
             THEN [raised |-> duration.raised, calls |-> <<>>]
             ELSE IF phone = <<>>
             THEN ParseLoop(Tail(rest), acc)
             ELSE ParseLoop(Tail(rest),
                            Append(acc, [phone     |-> phone,
                                         partner   |-> DataPartner(e),
                                         duration  |-> duration.n,
                                         status    |-> DataStatus(e),
                                         timestamp |-> EntryTimestamp(e)]))

\* list.sort(key=timestamp) is stable: a call goes after the calls whose
\* timestamp is not later than its own
SortInsert(sorted, x) ==
    LET n == Cardinality({k \in DOMAIN sorted :
                              ~TextLess(x.timestamp, sorted[k].timestamp)})
    IN  SubSeq(sorted, 1, n) \o <<x>> \o SubSeq(sorted, n + 1, Len(sorted))

RECURSIVE SortByTimestamp(_)
SortByTimestamp(cs) ==
    IF cs = <<>> THEN <<>>
    ELSE SortInsert(SortByTimestamp(SubSeq(cs, 1, Len(cs) - 1)), cs[Len(cs)])

parse_results(results_data) ==
    LET r == ParseLoop(results_data, <<>>)
    IN  IF r.raised # "none" THEN r
        ELSE [raised |-> "none", calls |-> SortByTimestamp(r.calls)]

WithAttempt(call, n) ==
    [phone |-> call.phone, partner |-> call.partner, duration |-> call.duration,
     status |-> call.status, timestamp |-> call.timestamp, attempt |-> n]

assign_attempts_global(cs) == [k \in DOMAIN cs |-> WithAttempt(cs[k], k)]

\* phone_counter[phone] += 1; call["attempt"] = phone_counter[phone]
assign_attempts(cs) ==
    [k \in DOMAIN cs |->
        WithAttempt(cs[k], Cardinality({j \in 1..k : cs[j].phone = cs[k].phone}))]

(***************************************************************************)
(* SpecParse: main of load_spain_combined.py up to the numbered calls      *)
(***************************************************************************)
MaxResults == 3    \* entries of results.json

DataKeys == {"to_number", "partner_name", "duration", "classification"}

ResultEntry(phone, ts, status) ==
    [ekeys |-> {"data", "timestamp"}, dkeys |-> DataKeys, phone |-> phone,
     partner |-> "partner", duration |-> JInt(30), status |-> status,
     timestamp |-> ts, completed_at |-> <<>>]

\* two spellings of one number, and another number
ResultPhones ==
    {<<"+", "3", "4", "6">>, <<"+", "+", "3", "4", " ", "6">>, <<"+", "3", "4", "7">>}

UsualEntries ==
    {ResultEntry(ph, <<"0", "1">>, "hang up") : ph \in ResultPhones}
    \cup {ResultEntry(ph, <<"0", "2">>, "hang up") : ph \in ResultPhones}
    \cup {ResultEntry(ph, <<"0", "1">>, "success") : ph \in ResultPhones}

\* a phone of spaces only; no "data"; completed_at in place of timestamp; a
\* duration that is no number
BlankPhoneEntry == ResultEntry(<<" ">>, <<"0", "1">>, "hang up")

NoDataEntry ==
    [ResultEntry(<<>>, <<"0", "1">>, "unknown") EXCEPT !.ekeys = {"timestamp"}]

CompletedAtEntry ==
    [ResultEntry(<<"+", "3", "4", "6">>, <<>>, "voicemail")
        EXCEPT !.ekeys = {"data", "completed_at"}, !.completed_at = <<"0", "2">>]

BadDurationEntry ==
    [ResultEntry(<<"+", "3", "4", "6">>, <<"0", "1">>, "hang up")
        EXCEPT !.duration = JStr(<<"n", "/", "a">>)]

ResultEntries ==
    UsualEntries \cup {BlankPhoneEntry, NoDataEntry, CompletedAtEntry, BadDurationEntry}

ResultsFiles == SeqsUpTo(ResultEntries, MaxResults)

InitParse ==
    /\ results \in ResultsFiles
    /\ calls = <<>>
    /\ ppc = "start"
    /\ IdleServer
    /\ IdleNorm
    /\ IdleReplay
    /\ IdleSchema
    /\ IdlePhone

\* calls = parse_results(results_data)
ParseResults ==
    /\ ppc = "start"
    /\ LET r == parse_results(results)
       IN  /\ calls' = r.calls
           /\ ppc' = IF r.raised = "none" THEN "parsed" ELSE "raised"
    /\ UNCHANGED <<results, serverVars, normVars, replayVars, schemaVars, phoneVars>>

\* calls = assign_attempts(calls)
AssignAttempts ==
    /\ ppc = "parsed"
    /\ calls' = assign_attempts(calls)
    /\ ppc' = "numbered"
    /\ UNCHANGED <<results, serverVars, normVars, replayVars, schemaVars, phoneVars>>

NextParse == ParseResults \/ AssignAttempts

SpecParse == InitParse /\ [][NextParse]_vars

(***************************************************************************)
(* Claims about the per-call numbering (SpecParse)                         *)
(***************************************************************************)
\* the entries that are kept: those whose cleaned phone is not empty
KeptEntries == {i \in DOMAIN results : Collapsed(DataPhone(results[i])) # <<>>}

\* entry j comes before entry i among the calls to i's number
Earlier(j, i) ==
    LET tj == DigitsToNat(EntryTimestamp(results[j]))
        ti == DigitsToNat(EntryTimestamp(results[i]))
    IN  /\ Collapsed(DataPhone(results[j])) = Collapsed(DataPhone(results[i]))
        /\ tj < ti \/ (tj = ti /\ j < i)

Ordinal(i) == 1 + Cardinality({j \in KeptEntries : Earlier(j, i)})

\* C16: once the calls are numbered, each call's attempt is its 1-based
\* position among the calls to the same cleaned phone in timestamp order,
\* ties in input order; so a phone with k calls has the attempts 1..k, each
\* once; entries with an empty cleaned phone are dropped and count for nothing.
C16_AttemptNumbering ==
    ppc = "numbered" =>
        /\ Len(calls) = Cardinality(KeptEntries)
        /\ \A k \in DOMAIN calls : calls[k].phone # <<>>
        /\ \E f \in [DOMAIN calls -> KeptEntries] :
               /\ \A k, m \in DOMAIN calls : k # m => f[k] # f[m]
               /\ \A k \in DOMAIN calls :
                      /\ calls[k].phone = Collapsed(DataPhone(results[f[k]]))
                      /\ calls[k].timestamp = EntryTimestamp(results[f[k]])
                      /\ calls[k].status = DataStatus(results[f[k]])
                      /\ calls[k].attempt = Ordinal(f[k])
        /\ \A k \in DOMAIN calls :
               LET same == {m \in DOMAIN calls : calls[m].phone = calls[k].phone}
               IN  /\ {calls[m].attempt : m \in same} = 1..Cardinality(same)
                   /\ \A m, n \in same : m # n => calls[m].attempt # calls[n].attempt

\* three entries: a later call, an earlier one to the same number spelt
\* otherwise, and one with a blank phone; two calls come out, renumbered
C16_Witness ==
    /\ ppc = "numbered"
    /\ Len(results) = 3
    /\ results[1] = ResultEntry(<<"+", "3", "4", "6">>, <<"0", "2">>, "hang up")
    /\ results[2] = ResultEntry(<<"+", "+", "3", "4", " ", "6">>, <<"0", "1">>, "success")
    /\ results[3] = BlankPhoneEntry
    /\ Len(calls) = 2
    /\ calls[1].status = "success" /\ calls[1].attempt = 1
    /\ calls[2].status = "hang up" /\ calls[2].attempt = 2

====
